---- MODULE Spec2Model ----
(***************************************************************************)
(* A model of abagen's mouse query layer:                                  *)
(*   abagen/mouse/utils.py  _coerce_inputs, _make_api_query                *)
(*   abagen/mouse/gene.py   check_gene_validity, get_gene_info,            *)
(*                          _get_single_gene_attribute                     *)
(*                                                                         *)
(* Python values are records tagged by type: None, int, str, list.  Text   *)
(* is a sequence of pieces: the literals of a format string are one piece  *)
(* each ("id", "$", "eq"), the characters of a value are one piece each,   *)
(* so that quoting, str() of an int and int() of a text are computed on    *)
(* the characters.                                                         *)
(***************************************************************************)
EXTENDS Integers, Sequences, FiniteSets, TLC

VARIABLES pc, fn, args, out, requests, url, resp, validity, printed, warned,
          parsed, extracted

vars == <<pc, fn, args, out, requests, url, resp, validity, printed, warned,
          parsed, extracted>>

-----------------------------------------------------------------------------
(* Bounds of the model *)

\* longest list given as id, acronym or name
MaxLen == 2
\* longest list given as attributes
MaxAttrs == 2
\* largest total row count a response reports
MaxRows == 2

-----------------------------------------------------------------------------
(* Python values *)

None == [t |-> "none"]
PyInt(n) == [t |-> "int", v |-> n]
PyStr(s) == [t |-> "str", v |-> s]
PyList(l) == [t |-> "list", v |-> l]

IsList(x) == x.t = "list"

Return(v) == [kind |-> "return", value |-> v]
Raise(e, about) == [kind |-> "raise", exc |-> e, about |-> about]
NoResult == [kind |-> "none"]

Digits == <<"0", "1", "2", "3", "4", "5", "6", "7", "8", "9">>

RECURSIVE NatToText(_)
NatToText(n) ==
    IF n < 10 THEN <<Digits[n + 1]>>
    ELSE NatToText(n \div 10) \o <<Digits[(n % 10) + 1]>>

\* str(x) of an int or a str
Str(x) ==
    IF x.t = "int"
    THEN IF x.v < 0 THEN <<"-">> \o NatToText(-x.v) ELSE NatToText(x.v)
    ELSE x.v

RECURSIVE Join(_, _)
\* sep.join(texts)
Join(sep, texts) ==
    IF Len(texts) = 0 THEN <<>>
    ELSE IF Len(texts) = 1 THEN texts[1]
    ELSE texts[1] \o sep \o Join(sep, Tail(texts))

\* "'{}'".format(f)
Quoted(f) == <<"'">> \o Str(f) \o <<"'">>

\* every sequence over S of length 0..n
SeqsUpTo(S, n) == UNION {[1..k -> S] : k \in 0..n}

-----------------------------------------------------------------------------
(* utils.py: _coerce_inputs *)

CriteriaNames == <<"id", "acronym", "name">>

\* a variant that quotes by the type of the element, not by the field
QuoteElementsByType(criteria, param) ==
    [i \in 1..Len(param) |->
        IF param[i].t = "str" THEN Quoted(param[i]) ELSE Str(param[i])]

\* lines 34-36: the texts of a list's elements, quoted for the fields acronym
\* and name
QuoteElements(criteria, param) ==
    IF criteria \in {"acronym", "name"}
    THEN [i \in 1..Len(param) |-> Quoted(param[i])]
    ELSE [i \in 1..Len(param) |-> Str(param[i])]

RECURSIVE CoerceLoopNoBreak(_, _)
\* a variant without the break: the last given parameter wins
CoerceLoopNoBreak(i, params) ==
    LET here == IF IsList(params[i])
                THEN [criteria |-> CriteriaNames[i], query |-> "in",
                      param |-> PyStr(Join(<<",">>,
                                    QuoteElements(CriteriaNames[i], params[i].v)))]
                ELSE [criteria |-> CriteriaNames[i], query |-> "eq",
                      param |-> params[i]]
    IN  IF i = Len(params) THEN here
        ELSE LET rest == CoerceLoopNoBreak(i + 1, params)
             IN  IF rest.param # None \/ params[i] = None THEN rest ELSE here

RECURSIVE CoerceLoop(_, _)
\* the for loop over zip(['id', 'acronym', 'name'], params), from index i:
\* the values of criteria, query and param when the loop is left
CoerceLoop(i, params) ==
    IF params[i] # None
    THEN IF IsList(params[i])
         THEN [criteria |-> CriteriaNames[i], query |-> "in",
               param |-> PyStr(Join(<<",">>,
                                    QuoteElements(CriteriaNames[i], params[i].v)))]
         ELSE [criteria |-> CriteriaNames[i], query |-> "eq", param |-> params[i]]
    ELSE IF i < Len(params)
         THEN CoerceLoop(i + 1, params)
         ELSE [criteria |-> CriteriaNames[i], query |-> "eq", param |-> None]

CoerceInputs(id, acronym, name) ==
    LET l == CoerceLoop(1, <<id, acronym, name>>)
    IN  IF l.param = None
        THEN Raise("TypeError", CriteriaNames)
        ELSE Return(<<"[", l.criteria, "$", l.query>> \o Str(l.param) \o <<"]">>)

\* the scalars and lists given as id, acronym or name
Scalars == {PyInt(5), PyStr(<<"S", "S", "p">>), PyStr(<<"M", "O", "p">>)}
Params == {None} \cup Scalars \cup {PyList(l) : l \in SeqsUpTo(Scalars, MaxLen)}

-----------------------------------------------------------------------------
(* utils.py: _make_api_query *)

\* urllib.parse.quote_plus of one piece of text: letters, digits and _.-~ are
\* kept, a space becomes +, every other character its %XX escape
QuotePiece(p) ==
    CASE p = " " -> "+"
      [] p = "[" -> "%5B"
      [] p = "]" -> "%5D"
      [] p = "$" -> "%24"
      [] p = "'" -> "%27"
      [] p = "," -> "%2C"
      [] p = ":" -> "%3A"
      [] OTHER -> p

QuotePlus(text) == [i \in 1..Len(text) |-> QuotePiece(text[i])]

\* one round of the loop over zip(['include', 'criteria', 'only'], params)
UrlPart(key, value) ==
    IF value = None THEN <<>>
    ELSE LET joined == IF IsList(value)
                       THEN Join(<<",">>, [i \in 1..Len(value.v) |-> value.v[i].v])
                       ELSE value.v
         IN  <<key, "=">> \o QuotePlus(joined) \o <<"&">>

ApiUrl(dtype, includes, criteria, attributes, suffix) ==
    <<"http://api.brain-map.org/api/v2/data/", dtype, "/query.json?">>
        \o UrlPart("include", includes)
        \o UrlPart("criteria", criteria)
        \o UrlPart("only", attributes)
        \o (IF suffix # None THEN suffix.v ELSE <<>>)

\* requests' Response.raise_for_status: an HTTPError for a 4xx or 5xx status
RaisesForStatus(status) == 400 <= status /\ status < 600

\* the comparison info['total_rows'] == 0: an int equals 0, a str never does
IsZeroRows(total_rows) == total_rows = PyInt(0)

\* a variant that never hands the records on
GetMsgDropped(info) == PyList(<<>>)

\* info.get('msg', [])
GetMsg(info) == IF info.msg = None THEN PyList(<<>>) ELSE info.msg

\* lines 65-76: from raise_for_status to the return
ApiOutcome(u, r) ==
    IF RaisesForStatus(r.status)
    THEN [out |-> Raise("HTTPError", r.status), warned |-> <<>>, parsed |-> FALSE]
    ELSE IF ~r.body.success
    THEN [out |-> Raise("ValueError", u), warned |-> <<>>, parsed |-> TRUE]
    ELSE [out |-> Return(GetMsg(r.body)),
          warned |-> IF IsZeroRows(r.body.total_rows)
                     THEN <<[msg |-> "returned no results", url |-> u]>>
                     ELSE <<>>,
          parsed |-> TRUE]

\* the arguments of the calls of _make_api_query
ApiIncludes ==
    {None, PyStr(<<"structure_sets">>),
     PyList(<<PyStr(<<"genes">>), PyStr(<<"plane_of_section">>)>>)}
ApiCriteria == {None, PyStr(<<"[", "id", "$", "eq", "5", "]">>),
                PyStr(<<"[", "acronym", "$", "in", "'", "S", "S", "p", "'", ",",
                        "'", "M", "O", "p", "'", "]">>)}
ApiAttributes == {None, PyList(<<PyStr(<<"id">>), PyStr(<<"name">>)>>)}
ApiSuffix == {None, PyStr(<<"start_row", "=", "0">>)}

\* the JSON envelope: success, total_rows (an int, or the same number as a
\* string), msg (at most total_rows records, or no msg key at all)
Envelopes ==
    {[success |-> s, total_rows |-> t, msg |-> m] :
        s \in BOOLEAN,
        t \in UNION {{PyInt(n), PyStr(NatToText(n))} : n \in 0..MaxRows},
        m \in {None} \cup {PyList([i \in 1..k |-> [row |-> i]]) : k \in 0..MaxRows}}

RowsOf(t) == CHOOSE n \in 0..MaxRows : t \in {PyInt(n), PyStr(NatToText(n))}

\* what requests.get returns after following redirects: a 2xx response with
\* the envelope as its body, or a 4xx or 5xx response
ApiResponses ==
    {[status |-> 200, body |-> e] :
        e \in {x \in Envelopes : x.msg # None => Len(x.msg.v) <= RowsOf(x.total_rows)}}
    \cup {[status |-> st, body |-> None] : st \in {404, 500}}

-----------------------------------------------------------------------------
(* gene.py *)

URL_PREFIX == "http://api.brain-map.org/api/v2/data/SectionDataSet/query.xml?criteria=products[id$eq1],"
URL_INCLUDE == "&include=genes,plane_of_section"

GENE_ATTRIBUTES ==
    <<"acronym", "alias-tags", "chromosome-id", "ensembl-id", "entrez-id",
      "genomic-reference-update-id", "homologene-id", "id",
      "legacy-ensembl-gene-id", "name", "organism-id", "original-name",
      "original-symbol", "reference-genome-id", "sphinx-id", "version-status">>

\* a variant without the final else: the name is formatted even when None
GeneQueryUrlUnchecked(gene_id, gene_acronym, gene_name) ==
    IF gene_id # None
    THEN Return(<<URL_PREFIX, "genes", "[", "id", "$", "eq">> \o Str(gene_id)
                    \o <<"]", URL_INCLUDE>>)
    ELSE IF gene_acronym # None
    THEN Return(<<URL_PREFIX, "genes", "[", "acronym", "$", "eq", "'">>
                    \o Str(gene_acronym) \o <<"'", "]", URL_INCLUDE>>)
    ELSE Return(<<URL_PREFIX, "genes", "[", "name", "$", "eq", "'">>
                    \o (IF gene_name = None THEN <<"None">> ELSE Str(gene_name))
                    \o <<"'", "]", URL_INCLUDE>>)

\* lines 94-109 of check_gene_validity: the query URL, or the TypeError
GeneQueryUrl(gene_id, gene_acronym, gene_name) ==
    IF gene_id # None
    THEN Return(<<URL_PREFIX, "genes", "[", "id", "$", "eq">> \o Str(gene_id)
                    \o <<"]", URL_INCLUDE>>)
    ELSE IF gene_acronym # None
    THEN Return(<<URL_PREFIX, "genes", "[", "acronym", "$", "eq", "'">>
                    \o Str(gene_acronym) \o <<"'", "]", URL_INCLUDE>>)
    ELSE IF gene_name # None
    THEN Return(<<URL_PREFIX, "genes", "[", "name", "$", "eq", "'">>
                    \o Str(gene_name) \o <<"'", "]", URL_INCLUDE>>)
    ELSE Raise("TypeError", <<"gene identifier">>)

\* a variant that compares with '' instead of '0'
HasRowsNotEmpty(root) == root.total_rows # <<>>

\* root.attrib['total_rows'] != '0'
HasRows(root) == root.total_rows # <<"0">>

\* The parsed XML response: the total_rows attribute (text) and, in document
\* order, the gene elements of its section data sets; a gene element holds
\* for each of its child elements the text of the child (None for an empty
\* child), Absent for a child it does not have.
Absent == [t |-> "absent"]
GeneElements ==
    {[id |-> i, name |-> n] :
        i \in {Absent, PyStr(<<"1", "2">>), PyStr(<<" ", "7">>)},
        n \in {Absent, None, PyStr(<<"a", "b">>), PyStr(<<" ", "a">>)}}
GeneLists == {<<>>} \cup {<<g>> : g \in GeneElements}
                    \cup {<<g, h>> : g \in GeneElements, h \in GeneElements}
Roots ==
    UNION {{[total_rows |-> NatToText(n), genes |-> gs] :
                gs \in {l \in GeneLists : Len(l) <= n}} : n \in 0..MaxRows}

Child(gene, attr) == IF attr \in DOMAIN gene THEN gene[attr] ELSE Absent

RECURSIVE FindAll(_, _)
\* root.findall('section-data-sets/section-data-set/genes/gene/<attr>'):
\* the texts of the matching elements, in document order
FindAll(genes, attr) ==
    IF Len(genes) = 0 THEN <<>>
    ELSE (IF Child(genes[1], attr) = Absent THEN <<>> ELSE <<Child(genes[1], attr)>>)
            \o FindAll(Tail(genes), attr)

Whitespace == {" "}

RECURSIVE Strip(_)
RECURSIVE StripLeft(_)
StripLeft(s) ==
    IF Len(s) > 0 /\ s[1] \in Whitespace THEN StripLeft(Tail(s)) ELSE s
Strip(s) ==
    LET l == StripLeft(s)
    IN  IF Len(l) > 0 /\ l[Len(l)] \in Whitespace
        THEN Strip(SubSeq(l, 1, Len(l) - 1))
        ELSE l

DigitValue(c) == CHOOSE d \in 0..9 : Digits[d + 1] = c
IsDigit(c) == \E d \in 0..9 : Digits[d + 1] = c

RECURSIVE DigitsToNat(_)
DigitsToNat(s) ==
    IF Len(s) = 0 THEN 0
    ELSE 10 * DigitsToNat(SubSeq(s, 1, Len(s) - 1)) + DigitValue(s[Len(s)])

\* int(text): surrounding whitespace is dropped, then an optional sign and
\* one or more digits are wanted; anything else is a ValueError, and None in
\* place of a text a TypeError
PyIntOf(text) ==
    IF text = None THEN Raise("TypeError", text)
    ELSE LET s == Strip(text.v)
             signed == Len(s) > 0 /\ s[1] \in {"+", "-"}
             d == IF signed THEN Tail(s) ELSE s
         IN  IF Len(d) > 0 /\ \A i \in 1..Len(d) : IsDigit(d[i])
             THEN Return(PyInt(IF signed /\ s[1] = "-"
                               THEN -DigitsToNat(d) ELSE DigitsToNat(d)))
             ELSE Raise("ValueError", text)

\* a variant that strips the text it returns
GetSingleGeneAttributeStripped(root, attr) ==
    LET item == FindAll(root.genes, attr)
    IN  IF Len(item) = 0
        THEN Raise("AttributeError", attr)
        ELSE LET n == PyIntOf(item[1])
             IN  IF n.kind = "return" THEN n
                 ELSE IF n.exc = "ValueError" THEN Return(PyStr(Strip(item[1].v)))
                 ELSE Return(None)

\* _get_single_gene_attribute(root, attr)
GetSingleGeneAttribute(root, attr) ==
    LET item == FindAll(root.genes, attr)
    IN  IF Len(item) = 0
        THEN Raise("AttributeError", attr)
        ELSE LET n == PyIntOf(item[1])
             IN  IF n.kind = "return" THEN n
                 ELSE IF n.exc = "ValueError" THEN Return(item[1])
                 ELSE Return(None)

RECURSIVE InfoLoopKeepNone(_, _, _, _)
\* a variant that keeps None for an attribute that is not there
InfoLoopKeepNone(root, attr_list, gene_info, prints) ==
    IF Len(attr_list) = 0 THEN [gene_info |-> gene_info, printed |-> prints]
    ELSE LET attr == attr_list[1]
             r == GetSingleGeneAttribute(root, attr)
         IN  InfoLoopKeepNone(root, Tail(attr_list),
                 [a \in DOMAIN gene_info \cup {attr} |->
                     IF a = attr
                     THEN (IF r.kind = "raise" THEN None ELSE r.value)
                     ELSE gene_info[a]],
                 IF r.kind = "raise"
                 THEN Append(prints, [msg |-> "no attribute", about |-> attr])
                 ELSE prints)

RECURSIVE InfoLoop(_, _, _, _)
\* the loop of get_gene_info over attr_list from index i: the dict filled so
\* far and what was printed so far, to the dict and the prints at its end
InfoLoop(root, attr_list, gene_info, prints) ==
    IF Len(attr_list) = 0 THEN [gene_info |-> gene_info, printed |-> prints]
    ELSE LET attr == attr_list[1]
             r == GetSingleGeneAttribute(root, attr)
         IN  IF r.kind = "raise"
             THEN InfoLoop(root, Tail(attr_list), gene_info,
                           Append(prints, [msg |-> "no attribute", about |-> attr]))
             ELSE InfoLoop(root, Tail(attr_list),
                           [a \in DOMAIN gene_info \cup {attr} |->
                               IF a = attr THEN r.value ELSE gene_info[a]],
                           prints)

\* a variant that takes every response as valid
IsInvalidNever(v) == FALSE

\* the test "validity is False" of get_gene_info
IsInvalid(v) == v = FALSE

\* the item the message of the ValueError names
NamedGene(gene_id, gene_acronym, gene_name) ==
    SelectSeq(<<gene_id, gene_acronym, gene_name>>, LAMBDA item : item # None)[1]

\* lines 206-229 of get_gene_info: the value returned or the error raised,
\* and what is printed on the way
GeneInfoOutcome(root, attributes) ==
    LET attr_list == IF attributes = PyStr(<<"all">>)
                     THEN PyList([i \in 1..Len(GENE_ATTRIBUTES) |->
                                     PyStr(<<GENE_ATTRIBUTES[i]>>)])
                     ELSE attributes
    IN  IF IsList(attr_list)
        THEN LET l == InfoLoop(root,
                               [i \in 1..Len(attr_list.v) |-> attr_list.v[i].v[1]],
                               <<>>, <<>>)
             IN  [out |-> Return([t |-> "dict", v |-> l.gene_info]),
                  printed |-> l.printed]
        ELSE [out |-> GetSingleGeneAttribute(root, attributes.v[1]),
              printed |-> <<>>]

\* the arguments of the calls of the gene functions
GeneScalars == {PyInt(5), PyStr(<<"S", "S", "p">>)}
GeneParams == {None} \cup GeneScalars
ListedAttrs == {PyStr(<<"name">>), PyStr(<<"bogus">>)}
ExtractedAttrs == {"id", "name", "alias-tags", "bogus"}
GeneAttrArgs ==
    {PyStr(<<"all">>), PyStr(<<"id">>)} \cup ListedAttrs
        \cup {PyList(l) : l \in SeqsUpTo(ListedAttrs, MaxAttrs)}

-----------------------------------------------------------------------------
(* The calls *)

NoArgs == [id |-> None, acronym |-> None, name |-> None]
NoResp == [status |-> 0]

Idle ==
    /\ pc = "idle"
    /\ fn = "none"
    /\ args = NoArgs
    /\ out = NoResult
    /\ requests = 0
    /\ url = <<>>
    /\ resp = NoResp
    /\ validity = None
    /\ printed = <<>>
    /\ warned = <<>>
    /\ parsed = FALSE
    /\ extracted = FALSE

Init == Idle

\* _coerce_inputs(id, acronym, name), from its call to its return or raise
coerce_inputs ==
    /\ pc = "idle"
    /\ \E id \in Params, acronym \in Params, name \in Params :
          /\ args' = [id |-> id, acronym |-> acronym, name |-> name]
          /\ out' = CoerceInputs(id, acronym, name)
    /\ fn' = "_coerce_inputs"
    /\ pc' = "done"
    /\ UNCHANGED <<requests, url, resp, validity, printed, warned, parsed,
                   extracted>>

\* _make_api_query, lines 50-63: the url is built and, if verbose, printed
make_api_query ==
    /\ pc = "idle"
    /\ \E includes \in ApiIncludes, criteria \in ApiCriteria,
          attributes \in ApiAttributes, suffix \in ApiSuffix, verbose \in BOOLEAN :
          LET u == ApiUrl("Structure", includes, criteria, attributes, suffix)
          IN  /\ args' = [dtype |-> "Structure", includes |-> includes,
                          criteria |-> criteria, attributes |-> attributes,
                          suffix |-> suffix, verbose |-> verbose]
              /\ url' = u
              /\ printed' = IF verbose THEN <<[msg |-> "Querying", about |-> u]>>
                            ELSE <<>>
    /\ fn' = "_make_api_query"
    /\ pc' = "api_get"
    /\ UNCHANGED <<out, requests, resp, validity, warned, parsed, extracted>>

\* _make_api_query, lines 64-76: requests.get answers, and the response is
\* checked and returned
api_get ==
    /\ pc = "api_get"
    /\ \E r \in ApiResponses :
          LET o == ApiOutcome(url, r)
          IN  /\ resp' = r
              /\ out' = o.out
              /\ warned' = o.warned
              /\ parsed' = o.parsed
    /\ requests' = requests + 1
    /\ pc' = "done"
    /\ UNCHANGED <<fn, args, url, validity, printed, extracted>>

\* check_gene_validity, lines 94-111, called as f with the arguments a: the
\* TypeError, or the query url printed
EnterCheckGeneValidity(f, a) ==
    LET q == GeneQueryUrl(a.gene_id, a.gene_acronym, a.gene_name)
    IN  /\ fn' = f
        /\ args' = a
        /\ IF q.kind = "raise"
           THEN /\ out' = q
                /\ pc' = "done"
                /\ UNCHANGED <<url, printed>>
           ELSE /\ url' = q.value
                /\ printed' = <<[msg |-> "access", about |-> q.value]>>
                /\ pc' = "gene_get"
                /\ UNCHANGED out
        /\ UNCHANGED <<requests, resp, validity, warned, parsed, extracted>>

\* a call of check_gene_validity
check_gene_validity ==
    /\ pc = "idle"
    /\ \E gene_id \in GeneParams, gene_acronym \in GeneParams,
          gene_name \in GeneParams :
          EnterCheckGeneValidity("check_gene_validity",
              [gene_id |-> gene_id, gene_acronym |-> gene_acronym,
               gene_name |-> gene_name])

\* a call of get_gene_info, which starts by calling check_gene_validity
get_gene_info ==
    /\ pc = "idle"
    /\ \E gene_id \in GeneParams, gene_acronym \in GeneParams,
          gene_name \in GeneParams, attributes \in GeneAttrArgs :
          EnterCheckGeneValidity("get_gene_info",
              [gene_id |-> gene_id, gene_acronym |-> gene_acronym,
               gene_name |-> gene_name, attributes |-> attributes])

\* check_gene_validity, lines 112-118: requests.get answers, the response is
\* parsed and returned with its validity, to the caller or to get_gene_info
gene_get ==
    /\ pc = "gene_get"
    /\ \E root \in Roots :
          /\ resp' = root
          /\ validity' = HasRows(root)
          /\ IF fn = "check_gene_validity"
             THEN /\ out' = Return(<<HasRows(root), root>>)
                  /\ pc' = "done"
             ELSE /\ out' = out
                  /\ pc' = "validated"
    /\ requests' = requests + 1
    /\ parsed' = TRUE
    /\ UNCHANGED <<fn, args, url, printed, warned, extracted>>

\* get_gene_info, lines 195-229
gene_info ==
    /\ pc = "validated"
    /\ IF IsInvalid(validity)
       THEN /\ out' = Raise("ValueError",
                            NamedGene(args.gene_id, args.gene_acronym,
                                      args.gene_name))
            /\ UNCHANGED <<printed, extracted>>
       ELSE LET o == GeneInfoOutcome(resp, args.attributes)
            IN  /\ out' = o.out
                /\ printed' = printed \o o.printed
                /\ extracted' = TRUE
    /\ pc' = "done"
    /\ UNCHANGED <<fn, args, requests, url, resp, validity, warned, parsed>>

\* _get_single_gene_attribute(root, attr), from its call to its return or raise
get_single_gene_attribute ==
    /\ pc = "idle"
    /\ \E root \in Roots, attr \in ExtractedAttrs :
          /\ args' = [root |-> root, attr |-> attr]
          /\ out' = GetSingleGeneAttribute(root, attr)
    /\ fn' = "_get_single_gene_attribute"
    /\ pc' = "done"
    /\ UNCHANGED <<requests, url, resp, validity, printed, warned, parsed,
                   extracted>>

\* the caller takes the result; the next call starts from nothing
Finish ==
    /\ pc = "done"
    /\ pc' = "idle"
    /\ fn' = "none"
    /\ args' = NoArgs
    /\ out' = NoResult
    /\ requests' = 0
    /\ url' = <<>>
    /\ resp' = NoResp
    /\ validity' = None
    /\ printed' = <<>>
    /\ warned' = <<>>
    /\ parsed' = FALSE
    /\ extracted' = FALSE

Next ==
    \/ coerce_inputs
    \/ make_api_query
    \/ api_get
    \/ check_gene_validity
    \/ get_gene_info
    \/ gene_get
    \/ gene_info
    \/ get_single_gene_attribute
    \/ Finish

Spec == Init /\ [][Next]_vars

-----------------------------------------------------------------------------
(* The identifying parameters of the call in progress *)

Idents ==
    IF fn = "_coerce_inputs" THEN <<args.id, args.acronym, args.name>>
    ELSE <<args.gene_id, args.gene_acronym, args.gene_name>>

TakesIdents == fn \in {"_coerce_inputs", "check_gene_validity", "get_gene_info"}

AllAbsent == \A i \in 1..3 : Idents[i] = None

\* the index of the first parameter that is not None
FirstPresent ==
    CHOOSE i \in 1..3 : Idents[i] # None /\ \A j \in 1..(i - 1) : Idents[j] = None

\* the parameters with all but the i-th taken away
Only(i) == [j \in 1..3 |-> IF j = i THEN Idents[j] ELSE None]

-----------------------------------------------------------------------------
(* C1 *)

\* C1: a call of _coerce_inputs, check_gene_validity or get_gene_info with
\* id, acronym and name all None ends with a TypeError, with no fragment or
\* url built, nothing printed and no request issued.
C1_AllAbsentIsTypeError ==
    (TakesIdents /\ AllAbsent) =>
        /\ pc = "done"
        /\ out.kind = "raise" /\ out.exc = "TypeError"
        /\ requests = 0
        /\ url = <<>>
        /\ printed = <<>>
        /\ resp = NoResp

\* C1 witness: get_gene_info called with no identifier has raised.
C1_Witness ==
    /\ fn = "get_gene_info" /\ pc = "done" /\ AllAbsent
    /\ out.kind = "raise" /\ requests = 0

-----------------------------------------------------------------------------
(* C2 *)

\* C2: when at least one of id, acronym and name is given, the criteria are
\* those of the first given one in the order id, acronym, name: they carry
\* its field name, and they are what the call gives with the other two
\* parameters taken away; for _coerce_inputs and for check_gene_validity.
C2_FirstPresentOnly ==
    (TakesIdents /\ ~AllAbsent) =>
        LET k == FirstPresent
            o == Only(k)
        IN  IF fn = "_coerce_inputs"
            THEN /\ out.kind = "return"
                 /\ out.value[2] = CriteriaNames[k]
                 /\ out = CoerceInputs(o[1], o[2], o[3])
            ELSE /\ url[4] = CriteriaNames[k]
                 /\ url = GeneQueryUrl(o[1], o[2], o[3]).value

\* C2 witness: _coerce_inputs was given an id and an acronym, and the
\* fragment is the id's.
C2_Witness ==
    /\ fn = "_coerce_inputs" /\ pc = "done"
    /\ args.id = PyInt(5) /\ args.acronym = PyStr(<<"S", "S", "p">>)
    /\ out = Return(<<"[", "id", "$", "eq", "5", "]">>)

-----------------------------------------------------------------------------
(* C3 *)

\* the equality fragment with the value quoted for the fields acronym and name
QuotedEquality(field, value) ==
    <<"[", field, "$", "eq">>
        \o (IF field \in {"acronym", "name"} THEN Quoted(value) ELSE Str(value))
        \o <<"]">>

\* the parameter is of the type its docstring gives: an int as id, a str as
\* acronym or name
Documented(k) == Idents[k].t = (IF k = 1 THEN "int" ELSE "str")

\* C3: when the selected parameter is a scalar (an int id, a str acronym or
\* name), the fragment of _coerce_inputs is [field$eqVALUE] with the value in
\* single quotes for acronym and name and bare for id, and the criteria of
\* check_gene_validity quote the same way.
C3_ScalarQuotedByField ==
    (TakesIdents /\ ~AllAbsent /\ Documented(FirstPresent)) =>
        LET k == FirstPresent
            f == QuotedEquality(CriteriaNames[k], Idents[k])
        IN  IF fn = "_coerce_inputs"
            THEN out = Return(f)
            ELSE url = <<URL_PREFIX, "genes">> \o f \o <<URL_INCLUDE>>

-----------------------------------------------------------------------------
(* C4 *)

\* the membership fragment over the given members
Membership(field, members) ==
    <<"[", field, "$", "in">> \o Join(<<",">>, members) \o <<"]">>

\* C4 as stated: when the selected parameter of _coerce_inputs is a list, the
\* fragment is [field$inV1,V2,...] with the elements in order, every string
\* element in single quotes and every int element bare, whatever the field.
C4_ListQuotedByElementType ==
    (fn = "_coerce_inputs" /\ ~AllAbsent /\ IsList(Idents[FirstPresent])) =>
        LET k == FirstPresent
            l == Idents[k].v
        IN  out = Return(Membership(CriteriaNames[k],
                    [i \in 1..Len(l) |->
                        IF l[i].t = "str" THEN Quoted(l[i]) ELSE Str(l[i])]))

\* C4 as amended: when the selected parameter of _coerce_inputs is a list,
\* the fragment is [field$inV1,V2,...] with the elements in order, every
\* element in single quotes when the field is acronym or name and every
\* element bare when the field is id, whatever the type of the element.
C4_ListQuotedByField ==
    (fn = "_coerce_inputs" /\ ~AllAbsent /\ IsList(Idents[FirstPresent])) =>
        LET k == FirstPresent
            l == Idents[k].v
        IN  out = Return(Membership(CriteriaNames[k],
                    [i \in 1..Len(l) |->
                        IF k = 1 THEN Str(l[i]) ELSE Quoted(l[i])]))

\* C4 witness: _coerce_inputs(acronym=['SSp', 'MOp']) has returned
\* [acronym$in'SSp','MOp'].
C4_Witness ==
    /\ fn = "_coerce_inputs" /\ pc = "done"
    /\ args.id = None
    /\ args.acronym = PyList(<<PyStr(<<"S", "S", "p">>), PyStr(<<"M", "O", "p">>)>>)
    /\ out = Return(<<"[", "acronym", "$", "in", "'", "S", "S", "p", "'", ",",
                      "'", "M", "O", "p", "'", "]">>)

-----------------------------------------------------------------------------
(* C5 *)

\* C5: once check_gene_validity has its response, it returns the pair of the
\* validity and the parsed response, and the validity is true exactly when
\* the total row count of the response is not zero.
C5_ValidIffRows ==
    (fn = "check_gene_validity" /\ pc = "done" /\ requests > 0) =>
        /\ out.kind = "return"
        /\ out.value[2] = resp
        /\ \E n \in 0..MaxRows :
              /\ resp.total_rows = NatToText(n)
              /\ out.value[1] = (n # 0)

\* C5 witness: check_gene_validity has returned False with a response of no
\* rows.
C5_Witness ==
    /\ fn = "check_gene_validity" /\ pc = "done"
    /\ resp # NoResp /\ resp.total_rows = <<"0">>
    /\ out = Return(<<FALSE, resp>>)

-----------------------------------------------------------------------------
(* C6 *)

\* C6: in get_gene_info nothing is extracted unless check_gene_validity has
\* returned True for the one request of the call; when it returned False the
\* call ends with a ValueError naming the first given one of id, acronym and
\* name, with nothing extracted and nothing printed but the query, whatever
\* the attributes asked for.
C6_ExtractOnlyIfValid ==
    (fn = "get_gene_info") =>
        /\ extracted => (validity = TRUE /\ requests = 1 /\ pc = "done")
        /\ (pc = "done" /\ requests > 0 /\ validity = FALSE) =>
              /\ out = Raise("ValueError", Idents[FirstPresent])
              /\ ~extracted
              /\ printed = <<[msg |-> "access", about |-> url]>>

\* C6 witness: get_gene_info, asked for a list of attributes of an acronym
\* that has no rows, has raised the ValueError.
C6_Witness ==
    /\ fn = "get_gene_info" /\ pc = "done" /\ requests = 1 /\ validity = FALSE
    /\ args.gene_id = None /\ args.gene_acronym = PyStr(<<"S", "S", "p">>)
    /\ IsList(args.attributes) /\ Len(args.attributes.v) = 2
    /\ out.kind = "raise" /\ out.exc = "ValueError"

-----------------------------------------------------------------------------
(* C7 *)

\* the attribute names a call of get_gene_info asks for, in order
Requested ==
    IF args.attributes = PyStr(<<"all">>) THEN GENE_ATTRIBUTES
    ELSE IF IsList(args.attributes)
    THEN [i \in 1..Len(args.attributes.v) |-> args.attributes.v[i].v[1]]
    ELSE <<args.attributes.v[1]>>

InResponse(a) == \E i \in 1..Len(resp.genes) : Child(resp.genes[i], a) # Absent

RECURSIVE SkipNotes(_)
\* one diagnostic for each name of the sequence that is not in the response
SkipNotes(names) ==
    IF Len(names) = 0 THEN <<>>
    ELSE (IF InResponse(names[1]) THEN <<>>
          ELSE <<[msg |-> "no attribute", about |-> names[1]]>>)
            \o SkipNotes(Tail(names))

-----------------------------------------------------------------------------
(* C8 *)

\* the first text root.findall gives for the attribute of the call
FirstMatch == FindAll(args.root.genes, args.attr)[1]

\* the text is the decimal numeral of n with whitespace around it
IsNumeral(text, n) == Strip(text) = NatToText(n)

MaxNumeral == 99

\* C8 as stated: _get_single_gene_attribute raises AttributeError when
\* nothing matches; else returns None for an empty value, the integer for a
\* value that parses as one, and otherwise the text with no whitespace at
\* its ends.
C8_OtherwiseTrimmedText ==
    (fn = "_get_single_gene_attribute" /\ pc = "done") =>
        IF FindAll(args.root.genes, args.attr) = <<>>
        THEN out = Raise("AttributeError", args.attr)
        ELSE IF FirstMatch = None THEN out = Return(None)
        ELSE IF \E n \in 0..MaxNumeral : IsNumeral(FirstMatch.v, n)
        THEN \E n \in 0..MaxNumeral :
                IsNumeral(FirstMatch.v, n) /\ out = Return(PyInt(n))
        ELSE out = Return(PyStr(Strip(FirstMatch.v)))

\* C8 as amended: _get_single_gene_attribute raises AttributeError when
\* nothing matches; else returns None for an empty value, the integer for a
\* value that parses as one, and otherwise the text as it is in the response,
\* whitespace at its ends included.
C8_OtherwiseRawText ==
    (fn = "_get_single_gene_attribute" /\ pc = "done") =>
        IF FindAll(args.root.genes, args.attr) = <<>>
        THEN out = Raise("AttributeError", args.attr)
        ELSE IF FirstMatch = None THEN out = Return(None)
        ELSE IF \E n \in 0..MaxNumeral : IsNumeral(FirstMatch.v, n)
        THEN \E n \in 0..MaxNumeral :
                IsNumeral(FirstMatch.v, n) /\ out = Return(PyInt(n))
        ELSE out = Return(FirstMatch)

\* C8 witness: _get_single_gene_attribute has returned a name that starts
\* with a space as it is.
C8_Witness ==
    /\ fn = "_get_single_gene_attribute" /\ pc = "done"
    /\ args.attr = "name"
    /\ FindAll(args.root.genes, "name") # <<>>
    /\ FirstMatch = PyStr(<<" ", "a">>)
    /\ out = Return(PyStr(<<" ", "a">>))

-----------------------------------------------------------------------------
(* C9 *)

\* C9: when the envelope _make_api_query receives has success true and a
\* total row count of zero, as the int 0 or as the string "0", the call
\* raises nothing, warns once naming the url of the query, and returns an
\* empty list.
C9_ZeroRowsWarned ==
    (/\ fn = "_make_api_query" /\ pc = "done"
     /\ resp.status = 200 /\ resp.body.success
     /\ RowsOf(resp.body.total_rows) = 0) =>
        /\ out = Return(PyList(<<>>))
        /\ Len(warned) = 1
        /\ warned[1].url = url

-----------------------------------------------------------------------------
(* C10 *)

====
